---- MODULE Spec2Model ----
(***************************************************************************)
(* The synthetic data generator, scripts/generate_synthetic_data.py:       *)
(* main's generation loop, the placement arithmetic, convert_to_yolo and   *)
(* the dataset writer, as a state machine over the run's variables and     *)
(* the output directory.                                                   *)
(***************************************************************************)
EXTENDS Integers, Sequences, FiniteSets, TLC

VARIABLES
    shield_files,      \* main: the enumerated shield assets (names)
    letter_files,      \* main: the enumerated letter assets
    background_files,  \* main: the enumerated background assets
    num_images,        \* args.num_images
    pc,                \* position in main
    generated_count,   \* main: generated_count
    bg,                \* name of the background opened for the current scene
    num_logos_to_add,  \* main: num_logos_to_add
    attempt,           \* index of the for loop over range(num_logos_to_add)
    yolo_bboxes,       \* main: yolo_bboxes, with the placement each came from
    split,             \* main: split
    images,            \* files under images/<split>/
    labels,            \* files under labels/<split>/ and their text
    composites,        \* history: the pairs create_composite_logo was called on
    composite,         \* history: what create_composite_logo last returned
    event,             \* history: how the last step ended
    raised,            \* history: the exception the last step raised
    faults             \* history: I/O failures injected so far

vars == <<shield_files, letter_files, background_files, num_images, pc,
          generated_count, bg, num_logos_to_add, attempt, yolo_bboxes, split,
          images, labels, composites, composite, event, raised, faults>>

----------------------------------------------------------------------------
(* Bounds of the model *)

MaxTarget == 2

MaxFaults == 1

MaxDim == 6

----------------------------------------------------------------------------
(* The asset universe: file names and the raster sizes behind them *)

ShieldPool == {"shield1.png", "shield3.png"}

GeomShields == {"shield1.png", "shield2.png", "shield3.png"}

LetterPool == {"tletter1.png", "tletter2.png"}

BackgroundPool == {"bg1.jpg"}

GeomBackgrounds == {"bg1.jpg", "bg2.png"}

\* shield3.png is too narrow for the perspective jitter: int(6 * 0.15) = 0
ShieldSize(f) ==
    CASE f = "shield1.png" -> <<8, 8>>
      [] f = "shield2.png" -> <<20, 7>>
      [] OTHER             -> <<6, 9>>

LetterSize(f) ==
    CASE f = "tletter1.png" -> <<5, 9>>
      [] OTHER              -> <<30, 12>>

BackgroundSize(f) ==
    CASE f = "bg1.jpg" -> <<20, 10>>
      [] OTHER         -> <<9, 14>>

----------------------------------------------------------------------------
(* Arithmetic helpers *)

CeilDiv(a, b) == (a + b - 1) \div b

RECURSIVE GCD(_, _)
GCD(a, b) == IF b = 0 THEN a ELSE GCD(b, a % b)

RECURSIVE IsPowerOfTwo(_)
IsPowerOfTwo(n) == n = 1 \/ (n > 1 /\ n % 2 = 0 /\ IsPowerOfTwo(n \div 2))

\* num / den is a double without rounding: the reduced denominator is 2^k
ExactQuotient(num, den) == num = 0 \/ IsPowerOfTwo(den \div GCD(num, den))

\* int(a * (num / den)) in double arithmetic: the floor of the exact product,
\* or, when the quotient is rounded and the exact product is an integer, also
\* one less (22 * (15 / 22) = 14.999999999999998).
IntOfProduct(a, num, den) ==
    LET exact == (a * num) \div den
    IN  {exact} \cup (IF (a * num) % den = 0 /\ exact >= 1 /\ ~ExactQuotient(num, den)
                      THEN {exact - 1} ELSE {})

----------------------------------------------------------------------------
(* File names: f"synthetic_{generated_count:06d}" *)

RECURSIVE Digits(_)
Digits(n) == IF n < 10 THEN <<n>> ELSE Digits(n \div 10) \o <<n % 10>>

RECURSIVE ZeroPad(_, _)
ZeroPad(s, width) == IF Len(s) < width THEN ZeroPad(<<0>> \o s, width) ELSE s

SeqWidth == 6

BaseName(n) == ZeroPad(Digits(n), SeqWidth)

Splits == {"train", "val"}

FilePath(s, n) == <<s, BaseName(n)>>

----------------------------------------------------------------------------
(* The exclusion rule of main *)

IsForbiddenFirstOnly(shield_filename, letter_filename) ==
    shield_filename = "shield1.png" /\ letter_filename = "tletter2.png"

IsForbidden(shield_filename, letter_filename) ==
    \/ (shield_filename = "shield1.png" /\ letter_filename = "tletter2.png")
    \/ (shield_filename = "shield3.png" /\ letter_filename = "tletter1.png")

----------------------------------------------------------------------------
(* create_composite_logo, on raster sizes <<width, height>> *)

\* scale = 0.7, in tenths
LetterScaleTenths == 7

\* the value of the variable composite before the first call
NoComposite ==
    [ok |-> FALSE, shield |-> <<0, 0>>, letter |-> <<0, 0>>, size |-> <<0, 0>>,
     letter_w |-> 0, letter_h |-> 0, paste_x |-> 0, paste_y |-> 0]

\* new_letter_size = int(min(shield_w, shield_h) * scale)
NewLetterSize(shield_w, shield_h) ==
    IntOfProduct(IF shield_w <= shield_h THEN shield_w ELSE shield_h,
                 LetterScaleTenths, 10)

\* letter_img.resize((new_letter_size, new_letter_size)): both sides of the
\* letter become new_letter_size, whatever the letter's own size
ResizedLetter(letter_size, new_letter_size) == <<new_letter_size, new_letter_size>>

\* the composites create_composite_logo can return for a shield and a letter:
\* the canvas has the shield's size, the resized letter is pasted at
\* ((shield_w - letter_w) // 2, (shield_h - letter_h) // 2); resize raises
\* ValueError on a size below 1 (ok is FALSE)
CreateCompositeLogo(shield_size, letter_size) ==
    {[ok       |-> n >= 1,
      shield   |-> shield_size,
      letter   |-> letter_size,
      size     |-> shield_size,
      letter_w |-> ResizedLetter(letter_size, n)[1],
      letter_h |-> ResizedLetter(letter_size, n)[2],
      paste_x  |-> (shield_size[1] - ResizedLetter(letter_size, n)[1]) \div 2,
      paste_y  |-> (shield_size[2] - ResizedLetter(letter_size, n)[2]) \div 2] :
        n \in NewLetterSize(shield_size[1], shield_size[2])}

----------------------------------------------------------------------------
(* apply_augmentations: what decides the size of its result and whether it
   raises *)

JitterPercent == 15

JitterNoDim(dim) == JitterPercent \div 100

\* jitter_w = int(w * max_jitter)
Jitter(dim) == (dim * JitterPercent) \div 100

\* random.randint(1, jitter) raises ValueError on the empty range 1..0
AugmentRaises(w, h) == Jitter(w) < 1 \/ Jitter(h) < 1

MaxAngle == 15

\* the rotation angles drawn, in degrees, within [-MaxAngle, MaxAngle]
AllAngles == {0, 8, MaxAngle}

CosMilli(a) == CASE a = 0 -> 1000 [] a = 8 -> 990 [] OTHER -> 966

SinMilli(a) == CASE a = 0 -> 0 [] a = 8 -> 139 [] OTHER -> 259

\* logo_img.rotate(angle, expand=True): the canvas grows to the bounding box
\* of the rotated rectangle
RotatedSize(w, h, a) ==
    <<CeilDiv(w * CosMilli(a) + h * SinMilli(a), 1000),
      CeilDiv(h * CosMilli(a) + w * SinMilli(a), 1000)>>

----------------------------------------------------------------------------
(* The placement arithmetic of main, steps 6 and 7 *)

MinScale == 5

MaxScale == 35

AllScales == MinScale .. MaxScale

\* target_w = int(bg_w * scale), scale = p / 100
TargetDim(bg_dim, p) == (bg_dim * p) \div 100

\* ratio = min(target_w / logo_w, target_h / logo_h), as <<num, den>>
FitRatio(target_w, target_h, logo_w, logo_h) ==
    IF target_w * logo_h <= target_h * logo_w
    THEN <<target_w, logo_w>>
    ELSE <<target_h, logo_h>>

\* new_logo_w = int(logo_w * ratio): the values double arithmetic can give
NewLogoDims(logo_dim, ratio) == IntOfProduct(logo_dim, ratio[1], ratio[2])

\* if new_logo_w < 1 or new_logo_h < 1: continue
Degenerate(new_logo_w, new_logo_h) == new_logo_w < 1 \/ new_logo_h < 1

MaxPasteNoMargin(bg_dim, new_logo_dim) == bg_dim

\* max_x = bg_w - new_logo_w
MaxPaste(bg_dim, new_logo_dim) == bg_dim - new_logo_dim

\* random.randint(0, max_x): every value, the two ends, or the far end
PasteChoices(max, draws) ==
    CASE draws = "all"  -> 0 .. max
      [] draws = "ends" -> {0, max}
      [] OTHER          -> {max}

----------------------------------------------------------------------------
(* convert_to_yolo, on exact fractions <<numerator, denominator>> *)

ConvertToYoloSwapped(box, img_size) ==
    LET img_w == img_size[2]
        img_h == img_size[1]
    IN  << <<box[1] + box[3], 2 * img_w>>, <<box[2] + box[4], 2 * img_h>>,
           <<box[3] - box[1], img_w>>, <<box[4] - box[2], img_h>> >>

ConvertToYolo(box, img_size) ==
    LET img_w == img_size[1]
        img_h == img_size[2]
    IN  << <<box[1] + box[3], 2 * img_w>>, <<box[2] + box[4], 2 * img_h>>,
           <<box[3] - box[1], img_w>>, <<box[4] - box[2], img_h>> >>

----------------------------------------------------------------------------
(* The label text: a sequence of tokens <<kind, numerator, denominator>> *)

ClassTok == <<"0", 0, 0>>

SpaceTok == <<" ", 0, 0>>

NewlineTok == <<"newline", 0, 0>>

BackslashTok == <<"backslash", 0, 0>>

LetterNTok == <<"n", 0, 0>>

NumTok(f) == <<"float", f[1], f[2]>>

\* the f-string of main ends in "\\n": a backslash and the letter n
Terminator == <<BackslashTok, LetterNTok>>

\* f"0 {bbox[0]} {bbox[1]} {bbox[2]} {bbox[3]}\\n"
LabelLine(bbox) ==
    <<ClassTok, SpaceTok, NumTok(bbox[1]), SpaceTok, NumTok(bbox[2]), SpaceTok,
      NumTok(bbox[3]), SpaceTok, NumTok(bbox[4])>> \o Terminator

\* the text after the first k writes of the loop over yolo_bboxes
RECURSIVE LabelText(_, _)
LabelText(bboxes, k) ==
    IF k = 0 THEN <<>>
    ELSE LabelText(bboxes, k - 1) \o LabelLine(bboxes[k].yolo)

----------------------------------------------------------------------------
(* The run: main *)

Init ==
    /\ shield_files \in SUBSET ShieldPool
    /\ letter_files \in SUBSET LetterPool
    /\ background_files \in SUBSET BackgroundPool
    /\ num_images \in 0 .. MaxTarget
    /\ pc = "startup"
    /\ generated_count = 0
    /\ bg = "none"
    /\ num_logos_to_add = 0
    /\ attempt = 0
    /\ yolo_bboxes = <<>>
    /\ split = "none"
    /\ images = {}
    /\ labels = <<>>
    /\ composites = {}
    /\ composite = NoComposite
    /\ event = "none"
    /\ raised = "none"
    /\ faults = 0

\* the exceptions the loop body can raise, all subclasses of Exception
ExceptionClasses == {"OSError", "ValueError", "IndexError"}

CaughtOnlyOSError(e) == e = "OSError"

\* except Exception as e
Caught(e) == e \in ExceptionClasses

\* the except clause of the loop: warn and continue; an exception it does
\* not catch leaves main
Handler(e) ==
    /\ raised' = e
    /\ IF Caught(e)
       THEN pc' = "loop" /\ event' = "warning"
       ELSE pc' = "crashed" /\ event' = "traceback"

AnyAssetPresent(s, l, b) == s # {} \/ l # {} \/ b # {}

\* all([shield_files, letter_files, background_files])
AllAssetsPresent(s, l, b) == s # {} /\ l # {} /\ b # {}

LoopConditionInclusive(count, target) == count <= target

\* while generated_count < args.num_images
LoopCondition(count, target) == count < target

NoLogosPlacedNever(bboxes) == FALSE

\* if not yolo_bboxes
NoLogosPlaced(bboxes) == bboxes = <<>>

\* random.randint(1, 3)
LogoCounts == 1 .. 3

\* the asset check of main and the start of the loop
Startup ==
    /\ pc = "startup"
    /\ IF AllAssetsPresent(shield_files, letter_files, background_files)
       THEN pc' = "loop" /\ event' = "started"
       ELSE pc' = "aborted" /\ event' = "aborted"
    /\ generated_count' = 0
    /\ UNCHANGED <<shield_files, letter_files, background_files, num_images, bg,
                   num_logos_to_add, attempt, yolo_bboxes, split, images,
                   labels, composites, composite, raised, faults>>

LoopExit ==
    /\ pc = "loop"
    /\ ~LoopCondition(generated_count, num_images)
    /\ pc' = "done"
    /\ event' = "summary"
    /\ raised' = "none"
    /\ UNCHANGED <<shield_files, letter_files, background_files, num_images,
                   generated_count, bg, num_logos_to_add, attempt, yolo_bboxes,
                   split, images, labels, composites, composite, faults>>

\* an injected I/O failure: the call raises OSError
InjectFault ==
    /\ faults < MaxFaults
    /\ faults' = faults + 1
    /\ Handler("OSError")

\* the loop test, opening the background, the draw of num_logos_to_add
SceneStart(counts) ==
    /\ pc = "loop"
    /\ LoopCondition(generated_count, num_images)
    /\ UNCHANGED <<shield_files, letter_files, background_files, num_images,
                   generated_count, split, images, labels, composites, composite>>
    /\ IF background_files = {}
       THEN /\ Handler("IndexError")
            /\ UNCHANGED <<bg, num_logos_to_add, attempt, yolo_bboxes, faults>>
       ELSE \E b \in background_files :
              \/ /\ InjectFault
                 /\ UNCHANGED <<bg, num_logos_to_add, attempt, yolo_bboxes>>
              \/ /\ \E n \in counts :
                      /\ bg' = b
                      /\ yolo_bboxes' = <<>>
                      /\ num_logos_to_add' = n
                      /\ attempt' = 0
                      /\ pc' = "logos"
                      /\ event' = "scene"
                      /\ raised' = "none"
                      /\ UNCHANGED faults

NextAttemptRetry(e) ==
    /\ attempt' = IF e = "skip_forbidden" THEN attempt ELSE attempt + 1
    /\ event' = e
    /\ raised' = "none"
    /\ UNCHANGED <<pc, faults>>

\* the attempt ends with continue, or at the end of the loop body
NextAttempt(e) ==
    /\ attempt' = attempt + 1
    /\ event' = e
    /\ raised' = "none"
    /\ UNCHANGED <<pc, faults>>

\* steps 6 to 8 for a logo of size logo_w x logo_h built from the pair (s, l)
Place(s, l, logo_w, logo_h, scales, draws) ==
    LET bg_w == BackgroundSize(bg)[1]
        bg_h == BackgroundSize(bg)[2]
    IN  \E p \in scales :
          LET target_w == TargetDim(bg_w, p)
              target_h == TargetDim(bg_h, p)
          IN  IF logo_w = 0 \/ logo_h = 0
              THEN NextAttempt("drop_degenerate") /\ UNCHANGED yolo_bboxes
              ELSE LET ratio == FitRatio(target_w, target_h, logo_w, logo_h)
                   IN  \E new_logo_w \in NewLogoDims(logo_w, ratio),
                          new_logo_h \in NewLogoDims(logo_h, ratio) :
                         IF Degenerate(new_logo_w, new_logo_h)
                         THEN NextAttempt("drop_degenerate") /\ UNCHANGED yolo_bboxes
                         ELSE LET max_x == MaxPaste(bg_w, new_logo_w)
                                  max_y == MaxPaste(bg_h, new_logo_h)
                              IN  IF max_x < 0 \/ max_y < 0
                                  THEN Handler("ValueError")
                                       /\ UNCHANGED <<attempt, faults, yolo_bboxes>>
                                  ELSE \E paste_x \in PasteChoices(max_x, draws),
                                          paste_y \in PasteChoices(max_y, draws) :
                                         LET bbox == <<paste_x, paste_y,
                                                       paste_x + new_logo_w,
                                                       paste_y + new_logo_h>>
                                         IN  /\ yolo_bboxes' = Append(yolo_bboxes,
                                                  [yolo  |-> ConvertToYolo(bbox, <<bg_w, bg_h>>),
                                                   place |-> [x |-> paste_x, y |-> paste_y,
                                                              w |-> new_logo_w, h |-> new_logo_h,
                                                              bg_w |-> bg_w, bg_h |-> bg_h,
                                                              target_w |-> target_w,
                                                              target_h |-> target_h],
                                                   pair  |-> <<s, l>>])
                                             /\ NextAttempt("accepted")

\* one pass of the for loop over range(num_logos_to_add)
LogoAttempt(scales, angles, draws) ==
    /\ pc = "logos"
    /\ attempt < num_logos_to_add
    /\ UNCHANGED <<shield_files, letter_files, background_files, num_images,
                   generated_count, bg, num_logos_to_add, split, images, labels>>
    /\ IF shield_files = {} \/ letter_files = {}
       THEN /\ Handler("IndexError")
            /\ UNCHANGED <<attempt, yolo_bboxes, composites, composite, faults>>
       ELSE \E s \in shield_files, l \in letter_files :
              IF IsForbidden(s, l)
              THEN /\ NextAttempt("skip_forbidden")
                   /\ UNCHANGED <<yolo_bboxes, composites, composite>>
              ELSE \/ /\ InjectFault
                      /\ UNCHANGED <<attempt, yolo_bboxes, composites, composite>>
                   \/ /\ composites' = composites \cup {<<s, l>>}
                      /\ \E logo \in CreateCompositeLogo(ShieldSize(s), LetterSize(l)) :
                           /\ composite' = logo
                           /\ LET w == logo.size[1]
                                  h == logo.size[2]
                              IN  IF ~logo.ok \/ AugmentRaises(w, h)
                                  THEN /\ Handler("ValueError")
                                       /\ UNCHANGED <<attempt, yolo_bboxes, faults>>
                                  ELSE \E a \in angles :
                                         Place(s, l, RotatedSize(w, h, a)[1],
                                               RotatedSize(w, h, a)[2], scales, draws)

\* step 9: the scene is dropped, or its split is drawn
Finalize ==
    /\ pc = "logos"
    /\ attempt >= num_logos_to_add
    /\ raised' = "none"
    /\ UNCHANGED <<shield_files, letter_files, background_files, num_images,
                   generated_count, bg, num_logos_to_add, attempt, yolo_bboxes,
                   images, labels, composites, composite, faults>>
    /\ IF NoLogosPlaced(yolo_bboxes)
       THEN pc' = "loop" /\ event' = "discarded" /\ UNCHANGED split
       ELSE \E sp \in Splits :
              split' = sp /\ pc' = "save_image" /\ event' = "finalized"

\* background_pil.save(...)
SaveImage ==
    /\ pc = "save_image"
    /\ UNCHANGED <<shield_files, letter_files, background_files, num_images,
                   generated_count, bg, num_logos_to_add, attempt, yolo_bboxes,
                   split, labels, composites, composite>>
    /\ \/ /\ images' = images \cup {FilePath(split, generated_count)}
          /\ pc' = "save_label"
          /\ event' = "image_saved"
          /\ raised' = "none"
          /\ UNCHANGED faults
       \/ /\ InjectFault
          /\ UNCHANGED images

\* the file at path now holds text
WriteFile(files, path, text, complete) ==
    [q \in (DOMAIN files) \cup {path} |->
        IF q = path THEN [text |-> text, complete |-> complete] ELSE files[q]]

\* with open(..., 'w') as f: the writes, then generated_count += 1
SaveLabel ==
    /\ pc = "save_label"
    /\ UNCHANGED <<shield_files, letter_files, background_files, num_images,
                   bg, num_logos_to_add, attempt, yolo_bboxes, split, images,
                   composites, composite>>
    /\ LET path == FilePath(split, generated_count)
       IN  \/ /\ labels' = WriteFile(labels, path,
                                     LabelText(yolo_bboxes, Len(yolo_bboxes)), TRUE)
              /\ generated_count' = generated_count + 1
              /\ pc' = "loop"
              /\ event' = "written"
              /\ raised' = "none"
              /\ UNCHANGED faults
           \/ /\ InjectFault
              /\ UNCHANGED <<labels, generated_count>>
           \/ /\ InjectFault
              /\ \E k \in 0 .. (Len(yolo_bboxes) - 1) :
                   labels' = WriteFile(labels, path, LabelText(yolo_bboxes, k), FALSE)
              /\ UNCHANGED generated_count

\* the draws explored by the run specification
RunScales == {MinScale, MaxScale}

RunAngles == {0}

RunPositions == "far"

Next ==
    \/ Startup
    \/ LoopExit
    \/ SceneStart(LogoCounts)
    \/ LogoAttempt(RunScales, RunAngles, RunPositions)
    \/ Finalize
    \/ SaveImage
    \/ SaveLabel

Spec == Init /\ [][Next]_vars

----------------------------------------------------------------------------
(* The run under fair draws: the interpreter keeps stepping, and a draw of
   random that can come out some way infinitely often does so infinitely
   often. Two such outcomes are stated: a scene of one logo attempt on a
   given background, and an accepted placement in the last attempt slot. *)

SceneOne(b) ==
    /\ SceneStart(LogoCounts)
    /\ pc' = "logos"
    /\ bg' = b
    /\ num_logos_to_add' = 1

AcceptLast ==
    /\ LogoAttempt(RunScales, RunAngles, RunPositions)
    /\ event' = "accepted"
    /\ attempt' = num_logos_to_add

\* as Init, with one target and at most one injected operating-system
\* failure still to come
InitFair ==
    /\ shield_files \in SUBSET ShieldPool
    /\ letter_files \in SUBSET LetterPool
    /\ background_files \in SUBSET BackgroundPool
    /\ num_images = MaxTarget - 1
    /\ pc = "startup"
    /\ generated_count = 0
    /\ bg = "none"
    /\ num_logos_to_add = 0
    /\ attempt = 0
    /\ yolo_bboxes = <<>>
    /\ split = "none"
    /\ images = {}
    /\ labels = <<>>
    /\ composites = {}
    /\ composite = NoComposite
    /\ event = "none"
    /\ raised = "none"
    /\ faults \in {MaxFaults - 1, MaxFaults}

FairSpec ==
    /\ InitFair
    /\ [][Next]_vars
    /\ WF_vars(Next)
    /\ \A b \in BackgroundPool : SF_vars(SceneOne(b))
    /\ SF_vars(AcceptLast)

----------------------------------------------------------------------------
(* The placement specification: one run of one scene of one logo attempt,
   over every scale, rotation and paste origin, without injected failures *)

InitGeom ==
    /\ shield_files = GeomShields
    /\ letter_files = LetterPool
    /\ background_files = GeomBackgrounds
    /\ num_images = 1
    /\ pc = "startup"
    /\ generated_count = 0
    /\ bg = "none"
    /\ num_logos_to_add = 0
    /\ attempt = 0
    /\ yolo_bboxes = <<>>
    /\ split = "none"
    /\ images = {}
    /\ labels = <<>>
    /\ composites = {}
    /\ composite = NoComposite
    /\ event = "none"
    /\ raised = "none"
    /\ faults = MaxFaults

GeomCounts == {1}

NextGeom ==
    \/ Startup
    \/ LoopExit
    \/ SceneStart(GeomCounts)
    \/ LogoAttempt(AllScales, AllAngles, "all")
    \/ Finalize
    \/ SaveImage
    \/ SaveLabel

SpecGeom == InitGeom /\ [][NextGeom]_vars

----------------------------------------------------------------------------
(* The compositor specification: create_composite_logo applied to every
   shield and letter size up to MaxDim *)

InitLogo ==
    /\ shield_files = {}
    /\ letter_files = {}
    /\ background_files = {}
    /\ num_images = 0
    /\ pc = "compose"
    /\ generated_count = 0
    /\ bg = "none"
    /\ num_logos_to_add = 0
    /\ attempt = 0
    /\ yolo_bboxes = <<>>
    /\ split = "none"
    /\ images = {}
    /\ labels = <<>>
    /\ composites = {}
    /\ composite = NoComposite
    /\ event = "none"
    /\ raised = "none"
    /\ faults = 0

ComposeLogo ==
    /\ pc = "compose"
    /\ \E shield_w \in 1 .. MaxDim, shield_h \in 1 .. MaxDim,
          letter_w \in 1 .. MaxDim, letter_h \in 1 .. MaxDim :
          composite' \in CreateCompositeLogo(<<shield_w, shield_h>>, <<letter_w, letter_h>>)
    /\ UNCHANGED <<shield_files, letter_files, background_files, num_images, pc,
                   generated_count, bg, num_logos_to_add, attempt, yolo_bboxes,
                   split, images, labels, composites, event, raised, faults>>

NextLogo == ComposeLogo

SpecLogo == InitLogo /\ [][NextLogo]_vars

----------------------------------------------------------------------------
(* Properties *)

\* the two pairings main must never composite
ForbiddenPairs == {<<"shield1.png", "tletter2.png">>, <<"shield3.png", "tletter1.png">>}

\* number of scenes whose image and label both lie fully written in one split
NumWritten ==
    Cardinality({k \in 0 .. (MaxTarget + 1) :
        \E s \in Splits : /\ FilePath(s, k) \in images
                          /\ FilePath(s, k) \in DOMAIN labels
                          /\ labels[FilePath(s, k)].complete})

\* C1: no scene is written with zero annotation records: the image and label
\* writes are only reached with a non-empty yolo_bboxes, a fully written label
\* holds text, and a scene that ends its attempts with no record changes no
\* file and no counter and returns to the loop test.
C1_NoEmptyScene ==
    /\ [](/\ pc \in {"save_image", "save_label"} => Len(yolo_bboxes) >= 1
          /\ \A q \in DOMAIN labels : labels[q].complete => labels[q].text # <<>>)
    /\ [][(pc = "logos" /\ attempt >= num_logos_to_add /\ yolo_bboxes = <<>>)
            => (/\ images' = images
                /\ labels' = labels
                /\ generated_count' = generated_count
                /\ pc' = "loop")]_vars

\* a scene of three attempts, none of which was recorded, has been discarded
C1_Witness ==
    /\ event = "discarded"
    /\ pc = "loop"
    /\ num_logos_to_add = 3
    /\ yolo_bboxes = <<>>
    /\ background_files = {"bg1.jpg"}

\* C2: between scenes and at the end of the run, every image has its fully
\* written label in the same split and every label has its image.
C2_ImageLabelTogether ==
    pc \in {"loop", "done"} =>
        /\ \A q \in images : q \in DOMAIN labels /\ labels[q].complete
        /\ \A q \in DOMAIN labels : q \in images /\ labels[q].complete

\* C3: create_composite_logo is never reached for a forbidden pair, and no
\* annotation record derives from one.
C3_NoForbiddenComposite ==
    /\ composites \cap ForbiddenPairs = {}
    /\ \A i \in DOMAIN yolo_bboxes : yolo_bboxes[i].pair \notin ForbiddenPairs

\* a forbidden pair has just been drawn in a run that has written a scene
C3_Witness ==
    /\ event = "skip_forbidden"
    /\ generated_count >= 1
    /\ shield_files = ShieldPool
    /\ letter_files = LetterPool

\* C4: every accepted placement lies inside the background, is at least one
\* pixel in each dimension and no larger than the target box, whose sides are
\* at most the maximal scale of the background's.
C4_PlacementInBounds ==
    \A i \in DOMAIN yolo_bboxes :
        LET pl == yolo_bboxes[i].place
        IN  /\ 0 <= pl.x /\ pl.x + pl.w <= pl.bg_w
            /\ 0 <= pl.y /\ pl.y + pl.h <= pl.bg_h
            /\ pl.w >= 1 /\ pl.h >= 1
            /\ pl.w <= pl.target_w /\ pl.h <= pl.target_h
            /\ 100 * pl.target_w <= MaxScale * pl.bg_w
            /\ 100 * pl.target_h <= MaxScale * pl.bg_h

\* a logo pasted flush with the right and bottom edges of the background
C4_Witness ==
    \E i \in DOMAIN yolo_bboxes :
        LET pl == yolo_bboxes[i].place
        IN  pl.x + pl.w = pl.bg_w /\ pl.y + pl.h = pl.bg_h /\ pl.w < pl.target_w

\* C5: generated_count starts at 0, stays within 0 .. num_images, equals the
\* number of written scenes, grows by one only in the step that completes the
\* label of a scene whose image is on disk, is unchanged by discarded and
\* failed scenes, and the loop is left exactly when it equals num_images.
C5_CounterLifecycle ==
    /\ generated_count = 0
    /\ [](/\ 0 <= generated_count /\ generated_count <= num_images
          /\ generated_count = NumWritten
          /\ pc = "done" => generated_count = num_images)
    /\ [][/\ generated_count' \in {generated_count, generated_count + 1}
          /\ generated_count' = generated_count + 1 =>
                /\ pc = "save_label"
                /\ FilePath(split, generated_count) \in images'
                /\ FilePath(split, generated_count) \in DOMAIN labels'
                /\ labels'[FilePath(split, generated_count)].complete
          /\ event' \in {"warning", "discarded"} => generated_count' = generated_count
          /\ (pc = "loop" /\ generated_count = num_images) => pc' = "done"
          /\ (pc = "loop" /\ generated_count < num_images) => pc' # "done"]_vars

\* a run of two scenes that met a failure has ended
C5_Witness ==
    /\ pc = "done"
    /\ generated_count = 2
    /\ faults = 1

\* C6: at the end of the run the output holds, for each k below num_images,
\* exactly one image and one label, in the same split, and nothing else.
C6_ExactOutput ==
    pc = "done" =>
        /\ \A k \in 0 .. (num_images - 1) :
              \E s \in Splits :
                 /\ FilePath(s, k) \in images
                 /\ FilePath(s, k) \in DOMAIN labels
                 /\ \A t \in Splits \ {s} :
                       FilePath(t, k) \notin images /\ FilePath(t, k) \notin DOMAIN labels
        /\ Cardinality(images) = num_images
        /\ Cardinality(DOMAIN labels) = num_images

\* str.split: the pieces of text between the occurrences of sep
RECURSIVE SplitOn(_, _)
SplitOn(text, sep) ==
    IF \A i \in DOMAIN text : text[i] # sep
    THEN <<text>>
    ELSE LET i == CHOOSE j \in DOMAIN text :
                      text[j] = sep /\ \A m \in 1 .. (j - 1) : text[m] # sep
         IN  <<SubSeq(text, 1, i - 1)>> \o SplitOn(SubSeq(text, i + 1, Len(text)), sep)

\* the lines of a newline-terminated text
TextLines(text) ==
    LET pieces == SplitOn(text, NewlineTok)
    IN  IF pieces[Len(pieces)] = <<>> THEN SubSeq(pieces, 1, Len(pieces) - 1) ELSE pieces

\* the five fields of the line of one annotation record
RecordFields(yolo) ==
    << <<ClassTok>>, <<NumTok(yolo[1])>>, <<NumTok(yolo[2])>>,
       <<NumTok(yolo[3])>>, <<NumTok(yolo[4])>> >>

\* C7: the label of a scene just written splits on newlines into one line per
\* annotation record, in placement order, each of the five fields of its record.
C7_LabelLines ==
    event = "written" =>
        LET lines == TextLines(labels[FilePath(split, generated_count - 1)].text)
        IN  /\ Len(lines) = Len(yolo_bboxes)
            /\ \A i \in DOMAIN yolo_bboxes :
                  SplitOn(lines[i], SpaceTok) = RecordFields(yolo_bboxes[i].yolo)

\* C8: each field of an annotation record is a fraction in (0, 1], and the
\* normalized box [center - size/2, center + size/2] is the pixel box divided
\* by the background size, inside the unit square.
C8_YoloInUnitSquare ==
    \A i \in DOMAIN yolo_bboxes :
        LET y  == yolo_bboxes[i].yolo
            pl == yolo_bboxes[i].place
            \* twice the low and the high edge, as numerators over den
            lo(c, d) == 2 * c[1] * d[2] - d[1] * c[2]
            hi(c, d) == 2 * c[1] * d[2] + d[1] * c[2]
            den(c, d) == c[2] * d[2]
        IN  /\ \A j \in 1 .. 4 : y[j][2] > 0 /\ 0 < y[j][1] /\ y[j][1] <= y[j][2]
            /\ lo(y[1], y[3]) >= 0 /\ hi(y[1], y[3]) <= 2 * den(y[1], y[3])
            /\ lo(y[2], y[4]) >= 0 /\ hi(y[2], y[4]) <= 2 * den(y[2], y[4])
            /\ lo(y[1], y[3]) * pl.bg_w = 2 * pl.x * den(y[1], y[3])
            /\ hi(y[1], y[3]) * pl.bg_w = 2 * (pl.x + pl.w) * den(y[1], y[3])
            /\ lo(y[2], y[4]) * pl.bg_h = 2 * pl.y * den(y[2], y[4])
            /\ hi(y[2], y[4]) * pl.bg_h = 2 * (pl.y + pl.h) * den(y[2], y[4])

\* a record of a logo pasted at the top right corner of a background that is
\* not square
C8_Witness ==
    \E i \in DOMAIN yolo_bboxes :
        LET pl == yolo_bboxes[i].place
        IN  /\ pl.x + pl.w = pl.bg_w
            /\ pl.y = 0
            /\ pl.bg_w > pl.bg_h
            /\ pl.w # pl.h

\* C9: a step that raises ends in the except clause: the run is back at the
\* loop test with a warning and the same generated_count, the loop test then
\* starts a new scene, and the run never leaves main through an exception.
C9_FailureIsolated ==
    /\ [](/\ pc # "crashed"
          /\ (event = "warning" /\ pc = "loop") => generated_count < num_images)
    /\ [][raised' # "none" =>
            /\ pc' = "loop"
            /\ event' = "warning"
            /\ generated_count' = generated_count]_vars

\* the perspective jitter draw has raised and the scene was abandoned
C9_Witness ==
    /\ raised = "ValueError"
    /\ event = "warning"
    /\ pc = "loop"

\* C10: with an empty asset category the run never gets past the asset check:
\* no scene attempt, no file, no composite, generated_count 0.
C10_EmptyCategoryAborts ==
    (shield_files = {} \/ letter_files = {} \/ background_files = {}) =>
        /\ pc \in {"startup", "aborted"}
        /\ event \in {"none", "aborted"}
        /\ images = {}
        /\ DOMAIN labels = {}
        /\ composites = {}
        /\ generated_count = 0
        /\ raised = "none"

\* the run has aborted on an empty background directory
C10_Witness ==
    /\ pc = "aborted"
    /\ shield_files # {}
    /\ letter_files # {}
    /\ background_files = {}

Abs(x) == IF x < 0 THEN -x ELSE x

Larger(a, b) == IF a >= b THEN a ELSE b

Smaller(a, b) == IF a <= b THEN a ELSE b

\* C11: a composite that create_composite_logo returns has the shield's size;
\* the resized letter's largest side is 0.7 * min(shield_w, shield_h) up to
\* the truncation to a pixel, its sides are in the proportion of the letter's
\* own sides up to one pixel, and it is pasted centered.
C11_CompositeLogo ==
    composite.ok =>
        /\ composite.size = composite.shield
        /\ LET largest == Larger(composite.letter_w, composite.letter_h)
               least   == Smaller(composite.shield[1], composite.shield[2])
           IN  /\ 10 * largest <= LetterScaleTenths * least
               /\ LetterScaleTenths * least - 10 * largest <= 10
        /\ Abs(composite.letter_w * composite.letter[2]
               - composite.letter_h * composite.letter[1])
              <= Larger(composite.letter[1], composite.letter[2])
        /\ composite.shield[1] - composite.letter_w - 2 * composite.paste_x \in {0, 1}
        /\ composite.shield[2] - composite.letter_h - 2 * composite.paste_y \in {0, 1}

\* C12: in a scene of N attempts, N in 1..3, every attempt that does not
\* raise takes exactly one slot: a forbidden pair or a degenerate resize leaves
\* the records as they are, an accepted placement appends exactly one record
\* (non-degenerate, of a permitted pair), and the scene is finalized only
\* after its N attempts; so the records never outnumber the attempts made.
C12_AttemptSlots ==
    /\ [](pc = "logos" =>
            /\ num_logos_to_add \in 1 .. 3
            /\ attempt <= num_logos_to_add
            /\ Len(yolo_bboxes) <= attempt)
    /\ [][/\ (pc # "logos" /\ pc' = "logos") => (attempt' = 0 /\ yolo_bboxes' = <<>>)
          /\ (pc = "logos" /\ attempt < num_logos_to_add /\ raised' = "none") =>
                /\ pc' = "logos"
                /\ attempt' = attempt + 1
                /\ num_logos_to_add' = num_logos_to_add
                /\ event' \in {"skip_forbidden", "drop_degenerate", "accepted"}
                /\ event' \in {"skip_forbidden", "drop_degenerate"} =>
                      yolo_bboxes' = yolo_bboxes
                /\ event' = "accepted" =>
                      /\ Len(yolo_bboxes') = Len(yolo_bboxes) + 1
                      /\ SubSeq(yolo_bboxes', 1, Len(yolo_bboxes)) = yolo_bboxes
                      /\ yolo_bboxes'[Len(yolo_bboxes')].pair \notin ForbiddenPairs
                      /\ yolo_bboxes'[Len(yolo_bboxes')].place.w >= 1
                      /\ yolo_bboxes'[Len(yolo_bboxes')].place.h >= 1
          /\ (pc = "logos" /\ pc' # "logos" /\ raised' = "none") =>
                attempt = num_logos_to_add]_vars

\* the third of three attempts drew a forbidden pair after one placement was
\* accepted and one attempt was lost
C12_Witness ==
    /\ pc = "logos"
    /\ num_logos_to_add = 3
    /\ attempt = 3
    /\ Len(yolo_bboxes) = 1
    /\ event = "skip_forbidden"

\* the logo built on shield s can be rendered at least one pixel wide and
\* high on background b
CanPlace(s, b) ==
    \E a \in RunAngles, p \in RunScales :
        LET logo_w == RotatedSize(ShieldSize(s)[1], ShieldSize(s)[2], a)[1]
            logo_h == RotatedSize(ShieldSize(s)[1], ShieldSize(s)[2], a)[2]
            ratio  == FitRatio(TargetDim(BackgroundSize(b)[1], p),
                               TargetDim(BackgroundSize(b)[2], p), logo_w, logo_h)
        IN  \E new_logo_w \in NewLogoDims(logo_w, ratio),
               new_logo_h \in NewLogoDims(logo_h, ratio) :
                new_logo_w >= 1 /\ new_logo_h >= 1

\* some drawable pair is permitted, has a shield wide and high enough for the
\* jitter draw (int(dim * 0.15) >= 1), and fits every background
SomeProductivePair ==
    \E s \in shield_files, l \in letter_files :
        /\ <<s, l>> \notin ForbiddenPairs
        /\ JitterPercent * ShieldSize(s)[1] >= 100
        /\ JitterPercent * ShieldSize(s)[2] >= 100
        /\ background_files # {}
        /\ \A b \in background_files : CanPlace(s, b)

\* C13 as claimed: with three non-empty asset lists the run eventually leaves
\* the loop with generated_count = num_images.
C13_AlwaysCompletes ==
    (shield_files # {} /\ letter_files # {} /\ background_files # {}) =>
        <>(pc = "done" /\ generated_count = num_images)

\* C13 as amended: with a productive pair among the assets the run eventually
\* leaves the loop with generated_count = num_images.
C13_CompletesWhenProductive ==
    SomeProductivePair => <>(pc = "done" /\ generated_count = num_images)

\* a run of at least one scene has completed on assets that include both forbidden
\* pairs and a shield too small for the jitter draw
C13_Witness ==
    /\ pc = "done"
    /\ generated_count = num_images
    /\ num_images >= 1
    /\ labels # <<>>
    /\ shield_files = ShieldPool
    /\ letter_files = LetterPool

====
